---- MODULE Spec2Model ----
(***************************************************************************)
(* Model of challenge_fetcher/parser.py: the link resolver                 *)
(* (convert_urls_to_markdown), its three compiled regular expressions, and *)
(* the text sanitiser (sanitise_tag_text).                                 *)
(*                                                                         *)
(* A Python str is a sequence of one-character strings.  A content block   *)
(* (bs4.Tag) is the sequence of its child nodes: text nodes and <a>        *)
(* elements; an <a> element carries its href attribute and its child text  *)
(* nodes.                                                                  *)
(***************************************************************************)
EXTENDS Integers, Sequences, FiniteSets, TLC

VARIABLES content, links, i, remote_content, local, pc, result, error,
          href, match,
          description, github_workaround, description_text, subs

vars == <<content, links, i, remote_content, local, pc, result, error,
          href, match,
          description, github_workaround, description_text, subs>>

resolverVars == <<content, links, i, remote_content, local, result, error>>
regexVars == <<href, match>>
sanitiserVars == <<description, github_workaround, description_text, subs>>

(***************************************************************************)
(* Python values                                                           *)
(***************************************************************************)

\* Python's None, kept apart from every str (a str holds one-character items).
None == <<"<None>">>

\* str(None), what an f-string writes for None.
NoneStr == <<"N", "o", "n", "e">>

\* The f-string conversion "{x}" of a str or of None.
Format(x) == IF x = None THEN NoneStr ELSE x

Digits == {"0", "1", "2", "3", "4", "5", "6", "7", "8", "9"}

\* \w : letters, digits and the underscore (the letters the inputs use).
WordChars == Digits \cup {"a", "b", "c", "t", "u", "x", "_"}

Max(S) == CHOOSE m \in S : \A n \in S : n <= m

Min(S) == CHOOSE m \in S : \A n \in S : m <= n

\* s[p..] starts with the literal lit (p is 1-based).
HasAt(s, p, lit) ==
    /\ p >= 1
    /\ p + Len(lit) - 1 <= Len(s)
    /\ \A k \in 1..Len(lit) : s[p + k - 1] = lit[k]

\* Python's "lit in s".
Contains(s, lit) == {p \in 1..(Len(s) + 1) : HasAt(s, p, lit)} # {}

\* The number of consecutive characters of s from p on that belong to C.
RECURSIVE Run(_, _, _)
Run(s, p, C) ==
    IF p <= Len(s) /\ s[p] \in C THEN 1 + Run(s, p + 1, C) ELSE 0

\* The number of consecutive characters of s from p on that "." matches:
\* every character but the newline.
RECURSIVE DotRun(_, _)
DotRun(s, p) ==
    IF p <= Len(s) /\ s[p] # "\n" THEN 1 + DotRun(s, p + 1) ELSE 0

\* The concatenation of the strings of ss, in order.
RECURSIVE Join(_)
Join(ss) == IF ss = <<>> THEN <<>> ELSE Head(ss) \o Join(Tail(ss))

(***************************************************************************)
(* Literals                                                                *)
(***************************************************************************)

ProblemEq == <<"p", "r", "o", "b", "l", "e", "m", "=">>
AboutEq == <<"a", "b", "o", "u", "t", "=">>
ProjectSlash == <<"p", "r", "o", "j", "e", "c", "t", "/">>
Resources == <<"r", "e", "s", "o", "u", "r", "c", "e", "s">>
Images == <<"i", "m", "a", "g", "e", "s">>
MailTo == <<"m", "a", "i", "l", "t", "o", ":">>

\* challenge_fetcher.scraper.URL_BASE and CHALLENGE_URL_BASE: opaque
\* configuration strings of the scraper module, one token each.
URL_BASE == <<"<URL_BASE>">>
CHALLENGE_URL_BASE == <<"<CHALLENGE_URL_BASE>">>

(***************************************************************************)
(* The compiled regular expressions.  Each operator is pattern.search(url) *)
(* for a pattern anchored by "^" (no MULTILINE flag: the start of the      *)
(* string only); the result is a record [matched, group], group being the  *)
(* capture the caller reads.                                               *)
(***************************************************************************)

NoMatch == [matched |-> FALSE, group |-> <<>>]

\* CHALLENGE_URL_REGEX with \d in place of \d+ : one digit is captured.
ChallengeRegexOneDigit(url) ==
    LET p == Len(ProblemEq) + 1
    IN  IF HasAt(url, 1, ProblemEq) /\ Run(url, p, Digits) >= 1
        THEN [matched |-> TRUE, group |-> SubSeq(url, p, p)]
        ELSE NoMatch

\* ^problem=(?P<number>\d+) : the greedy \d+ takes the whole digit run.
CHALLENGE_URL_REGEX(url) ==
    LET p == Len(ProblemEq) + 1
        n == Run(url, p, Digits)
    IN  IF HasAt(url, 1, ProblemEq) /\ n >= 1
        THEN [matched |-> TRUE, group |-> SubSeq(url, p, p + n - 1)]
        ELSE NoMatch

\* ^about=(\w+)
ABOUT_URL_REGEX(url) ==
    LET p == Len(AboutEq) + 1
        n == Run(url, p, WordChars)
    IN  IF HasAt(url, 1, AboutEq) /\ n >= 1
        THEN [matched |-> TRUE, group |-> SubSeq(url, p, p + n - 1)]
        ELSE NoMatch

\* GroupLength with the group made lazy, (.+?\/)? : the shortest k is taken.
GroupLengthLazy(url, p, n) ==
    LET K == {k \in 2..(n - 1) : url[p + k - 1] = "/"}
    IN  IF K = {} THEN 0 ELSE Min(K)

\* The greedy optional group (.+\/)? followed by (?P<filename>.+), tried on
\* the n characters "." can match from position p: the group takes the
\* longest k >= 2 characters ending in "/" that leave a character for the
\* file name, and is skipped (k = 0) when there is none.
GroupLength(url, p, n) ==
    LET K == {k \in 2..(n - 1) : url[p + k - 1] = "/"}
    IN  IF K = {} THEN 0 ELSE Max(K)

\* (resources|images)\/(.+\/)?(?P<filename>.+) from position p0 + 1.
ResourceFrom(url, p0) ==
    LET dir == IF HasAt(url, p0 + 1, Resources) THEN Resources
               ELSE IF HasAt(url, p0 + 1, Images) THEN Images
               ELSE <<>>
        q == p0 + Len(dir) + 1
        p == q + 1
        n == DotRun(url, p)
        k == GroupLength(url, p, n)
    IN  IF dir # <<>> /\ HasAt(url, q, <<"/">>) /\ n >= 1
        THEN [matched |-> TRUE, group |-> SubSeq(url, p + k, p + n - 1)]
        ELSE NoMatch

\* ^(project\/)?(resources|images)\/(.+\/)?(?P<filename>.+) : the optional
\* "project/" is tried first and given up when the rest does not match.
RESOURCE_URL_REGEX(url) ==
    LET with == IF HasAt(url, 1, ProjectSlash)
                THEN ResourceFrom(url, Len(ProjectSlash))
                ELSE NoMatch
    IN  IF with.matched THEN with ELSE ResourceFrom(url, 0)

(***************************************************************************)
(* sanitise_file_name: called by convert_urls_to_markdown, defined outside *)
(* parser.py.  It drops the characters that are unsafe in a local file     *)
(* name or a Markdown link target: path separators, whitespace, reserved   *)
(* characters.                                                             *)
(***************************************************************************)

UnsafeFileChars == {"/", " ", "\n", ":", "?"}

RECURSIVE sanitise_file_name(_)
sanitise_file_name(name) ==
    IF name = <<>> THEN <<>>
    ELSE IF Head(name) \in UnsafeFileChars
         THEN sanitise_file_name(Tail(name))
         ELSE <<Head(name)>> \o sanitise_file_name(Tail(name))

(***************************************************************************)
(* The content block                                                       *)
(***************************************************************************)

\* A text node (bs4.NavigableString).
TextNode(text) == [tag |-> "text", href |-> None, children |-> <<text>>]

\* An <a> element: its href attribute (None when it has none) and its child
\* text nodes.
LinkNode(url, children) == [tag |-> "a", href |-> url, children |-> children]

\* Tag.get("href")
GetHref(link) == link.href

\* Tag.string: the only child when it is a single text node, else None.
TagString(link) ==
    IF Len(link.children) = 1 THEN link.children[1] ELSE None

\* Tag.text: every text node below the element, concatenated.
TagText(link) == Join(link.children)

\* content.find_all("a"): the <a> elements in document order, a list built
\* before the loop starts; each item keeps the element and its place.
RECURSIVE FindAllFrom(_, _)
FindAllFrom(block, k) ==
    IF k > Len(block) THEN <<>>
    ELSE IF block[k].tag = "a"
         THEN <<[at |-> k, node |-> block[k]]>> \o FindAllFrom(block, k + 1)
         ELSE FindAllFrom(block, k + 1)

FindAll(block) == FindAllFrom(block, 1)

\* f"[{link.string}]({url})"
MarkdownLink(link, url) ==
    <<"[">> \o Format(TagString(link)) \o <<"]", "(">> \o url \o <<")">>

\* ReplaceWith that leaves the element in the block.
ReplaceWithNothing(block, at, text) == block

\* link.replace_with(text): the element gives its place to one text node.
ReplaceWith(block, at, text) == [block EXCEPT ![at] = TextNode(text)]

\* f"{CHALLENGE_URL_BASE}{challenge_number}"
ChallengeTarget(number) == CHALLENGE_URL_BASE \o number

\* f"./{file_name}"
LocalTarget(file_name) == <<".", "/">> \o file_name

\* RemoteUrl without the base URL.
RemoteUrlNoBase(url) == url

\* URL_BASE + url
RemoteUrl(url) == URL_BASE \o url

\* f"{URL_BASE}{url}"
AboutTarget(url) == URL_BASE \o url

\* remote_content[file_name] = remote_url
SetItem(dict, key, value) ==
    [k \in DOMAIN dict \cup {key} |-> IF k = key THEN value ELSE dict[k]]

\* HasKey that never finds the key: the collision test left out.
HasKeyNever(dict, key) == FALSE

\* key in dict
HasKey(dict, key) == key \in DOMAIN dict

EmptyDict == [k \in {} |-> <<>>]

\* The branch of the if/elif chain a url takes.
Classify(url) ==
    IF CHALLENGE_URL_REGEX(url).matched THEN "challenge"
    ELSE IF RESOURCE_URL_REGEX(url).matched THEN "resource"
    ELSE IF ABOUT_URL_REGEX(url).matched THEN "about"
    ELSE "unknown"

KeyErrorMessage(file_name) ==
    <<"Multiple resources found with the name ">> \o file_name

\* NotImplementedMessage that does not name the url.
NotImplementedMessageNoUrl(url) ==
    <<"A URL was found to an unknown resource type">>

NotImplementedMessage(url) ==
    <<"A URL was found to an unknown resource type: ">> \o url

NoError == [kind |-> "none", message |-> <<>>]

NoResult == [kind |-> "unset", value |-> EmptyDict]

NoLocals == [url |-> None, challenge_number |-> None, file_name |-> None,
             remote_url |-> None]

(***************************************************************************)
(* Inputs of the link resolver                                             *)
(***************************************************************************)

\* The longest content block, in nodes.
MaxNodes == 3

Href_Challenge == ProblemEq \o <<"4", "2">>
Href_ChallengeZeros == ProblemEq \o <<"0", "0", "7", "x", "1">>
Href_ProblemNoDigit == ProblemEq \o <<"x">>
Href_Resource == Resources \o <<"/", "a", ".", "b">>
Href_ImageNested == ProjectSlash \o Images \o <<"/", "c", "/", "a", ".", "b">>
Href_ResourceSpace == Resources \o <<"/", "a", " ", ".", "b">>
Href_ResourceDir == Images \o <<"/", "c", "/">>
Href_ResourceSlash == Resources \o <<"/", "/">>
Href_About == AboutEq \o <<"x", "_", "1">>
Href_MailTo == MailTo \o <<"t", "@", "x">>

HrefSamples ==
    {Href_Challenge, Href_ChallengeZeros, Href_ProblemNoDigit, Href_Resource,
     Href_ImageNested, Href_ResourceSpace, Href_ResourceDir,
     Href_ResourceSlash, Href_About, Href_MailTo}

\* The nodes a block is made of: a text node, every sample href under a link
\* with one text child, and links with no child, with two children, and
\* with no href attribute.
NodeSamples ==
    {TextNode(<<"t">>)}
    \cup {LinkNode(h, <<(<<"t">>)>>) : h \in HrefSamples}
    \cup {LinkNode(h, <<>>) : h \in {Href_About, Href_Resource}}
    \cup {LinkNode(Href_Challenge, <<(<<"t">>), (<<"u">>)>>),
          LinkNode(None, <<(<<"t">>)>>)}

Blocks == UNION {[1..n -> NodeSamples] : n \in 0..MaxNodes}

(***************************************************************************)
(* convert_urls_to_markdown                                                *)
(***************************************************************************)

Idle ==
    /\ href = <<>>
    /\ match = [challenge |-> NoMatch, resource |-> NoMatch, about |-> NoMatch]
    /\ description = <<>>
    /\ github_workaround = FALSE
    /\ description_text = <<>>
    /\ subs = <<>>

Init ==
    /\ content \in Blocks
    /\ links = <<>>
    /\ i = 0
    /\ remote_content = EmptyDict
    /\ local = NoLocals
    /\ result = NoResult
    /\ error = NoError
    /\ pc = "call"
    /\ Idle

\* Lines 81 and 84: the empty manifest, and find_all's list of links.
Begin ==
    /\ pc = "call"
    /\ remote_content' = EmptyDict
    /\ links' = FindAll(content)
    /\ i' = 1
    /\ pc' = "loop"
    /\ UNCHANGED <<content, local, result, error>>
    /\ UNCHANGED <<regexVars, sanitiserVars>>

\* The loop has a link left.
AtLink == pc = "loop" /\ i <= Len(links)

\* Line 89: re's search(None) raises TypeError for a link without href.
IterateNoHref ==
    /\ AtLink
    /\ GetHref(links[i].node) = None
    /\ local' = [local EXCEPT !.url = None]
    /\ error' = [kind |-> "TypeError", message |-> <<>>]
    /\ pc' = "raised"
    /\ UNCHANGED <<content, links, i, remote_content, result>>
    /\ UNCHANGED <<regexVars, sanitiserVars>>

\* Lines 97-106 and 147.
IterateChallenge ==
    /\ AtLink
    /\ GetHref(links[i].node) # None
    /\ LET link == links[i]
           url == GetHref(link.node)
           challenge_match == CHALLENGE_URL_REGEX(url)
           challenge_number == challenge_match.group
           target == ChallengeTarget(challenge_number)
       IN  /\ challenge_match.matched
           /\ local' = [local EXCEPT !.url = target,
                                     !.challenge_number = challenge_number]
           /\ content' = ReplaceWith(content, link.at,
                                     MarkdownLink(link.node, target))
    /\ i' = i + 1
    /\ UNCHANGED <<links, remote_content, result, error, pc>>
    /\ UNCHANGED <<regexVars, sanitiserVars>>

\* Lines 107-129 and 147, the file name not yet in the manifest.
IterateResource ==
    /\ AtLink
    /\ GetHref(links[i].node) # None
    /\ LET link == links[i]
           url == GetHref(link.node)
           resource_match == RESOURCE_URL_REGEX(url)
           file_name == sanitise_file_name(resource_match.group)
           remote_url == RemoteUrl(url)
           target == LocalTarget(file_name)
       IN  /\ ~CHALLENGE_URL_REGEX(url).matched
           /\ resource_match.matched
           /\ ~HasKey(remote_content, file_name)
           /\ remote_content' = SetItem(remote_content, file_name, remote_url)
           /\ local' = [local EXCEPT !.url = target,
                                     !.file_name = file_name,
                                     !.remote_url = remote_url]
           /\ content' = ReplaceWith(content, link.at,
                                     MarkdownLink(link.node, target))
    /\ i' = i + 1
    /\ UNCHANGED <<links, result, error, pc>>
    /\ UNCHANGED <<regexVars, sanitiserVars>>

\* Lines 107-125: the file name is already a key of the manifest.
IterateCollision ==
    /\ AtLink
    /\ GetHref(links[i].node) # None
    /\ LET link == links[i]
           url == GetHref(link.node)
           resource_match == RESOURCE_URL_REGEX(url)
           file_name == sanitise_file_name(resource_match.group)
       IN  /\ ~CHALLENGE_URL_REGEX(url).matched
           /\ resource_match.matched
           /\ HasKey(remote_content, file_name)
           /\ local' = [local EXCEPT !.url = LocalTarget(file_name),
                                     !.file_name = file_name,
                                     !.remote_url = RemoteUrl(url)]
           /\ error' = [kind |-> "KeyError",
                        message |-> KeyErrorMessage(file_name)]
    /\ pc' = "raised"
    /\ UNCHANGED <<content, links, i, remote_content, result>>
    /\ UNCHANGED <<regexVars, sanitiserVars>>

\* Lines 130-136 and 147.
IterateAbout ==
    /\ AtLink
    /\ GetHref(links[i].node) # None
    /\ LET link == links[i]
           url == GetHref(link.node)
           target == AboutTarget(url)
       IN  /\ ~CHALLENGE_URL_REGEX(url).matched
           /\ ~RESOURCE_URL_REGEX(url).matched
           /\ ABOUT_URL_REGEX(url).matched
           /\ local' = [local EXCEPT !.url = target]
           /\ content' = ReplaceWith(content, link.at,
                                     MarkdownLink(link.node, target))
    /\ i' = i + 1
    /\ UNCHANGED <<links, remote_content, result, error, pc>>
    /\ UNCHANGED <<regexVars, sanitiserVars>>

\* Lines 137-144.
IterateUnknown ==
    /\ AtLink
    /\ GetHref(links[i].node) # None
    /\ LET url == GetHref(links[i].node)
       IN  /\ ~CHALLENGE_URL_REGEX(url).matched
           /\ ~RESOURCE_URL_REGEX(url).matched
           /\ ~ABOUT_URL_REGEX(url).matched
           /\ local' = [local EXCEPT !.url = url]
           /\ error' = [kind |-> "NotImplementedError",
                        message |-> NotImplementedMessage(url)]
    /\ pc' = "raised"
    /\ UNCHANGED <<content, links, i, remote_content, result>>
    /\ UNCHANGED <<regexVars, sanitiserVars>>

\* ReturnValue that returns the manifest even when it is empty.
ReturnValueAlways(dict) == [kind |-> "dict", value |-> dict]

\* Lines 149-154: None for an empty manifest, else the manifest.
ReturnValue(dict) ==
    IF DOMAIN dict = {} THEN [kind |-> "None", value |-> EmptyDict]
    ELSE [kind |-> "dict", value |-> dict]

Return ==
    /\ pc = "loop"
    /\ i > Len(links)
    /\ result' = ReturnValue(remote_content)
    /\ pc' = "done"
    /\ UNCHANGED <<content, links, i, remote_content, local, error>>
    /\ UNCHANGED <<regexVars, sanitiserVars>>

Next ==
    \/ Begin
    \/ IterateNoHref
    \/ IterateChallenge
    \/ IterateResource
    \/ IterateCollision
    \/ IterateAbout
    \/ IterateUnknown
    \/ Return

Spec == Init /\ [][Next]_vars

(***************************************************************************)
(* The three searches of one href (lines 89-95), over a wider set of hrefs *)
(***************************************************************************)

\* The longest tail of an href, in characters.
MaxTail == 6

TailChars == {"a", "7", "/", "\n"}

Tails == UNION {[1..n -> TailChars] : n \in 0..MaxTail}

HrefHeads ==
    {<<>>, ProblemEq, AboutEq, Resources, Images,
     ProjectSlash \o Resources, ProjectSlash \o Images}

Hrefs == {h \o t : h \in HrefHeads, t \in Tails}

NoSearch == [challenge |-> NoMatch, resource |-> NoMatch, about |-> NoMatch]

IdleResolver ==
    /\ content = <<>>
    /\ links = <<>>
    /\ i = 0
    /\ remote_content = EmptyDict
    /\ local = NoLocals
    /\ result = NoResult
    /\ error = NoError

InitRegex ==
    /\ href \in Hrefs
    /\ match = NoSearch
    /\ pc = "search"
    /\ IdleResolver
    /\ description = <<>>
    /\ github_workaround = FALSE
    /\ description_text = <<>>
    /\ subs = <<>>

Search ==
    /\ pc = "search"
    /\ match' = [challenge |-> CHALLENGE_URL_REGEX(href),
                 resource |-> RESOURCE_URL_REGEX(href),
                 about |-> ABOUT_URL_REGEX(href)]
    /\ pc' = "searched"
    /\ UNCHANGED <<href, resolverVars, sanitiserVars>>

NextRegex == Search

SpecRegex == InitRegex /\ [][NextRegex]_vars

(***************************************************************************)
(* sanitise_tag_text                                                       *)
(***************************************************************************)

Operatorname ==
    <<"\\", "o", "p", "e", "r", "a", "t", "o", "r", "n", "a", "m", "e">>

OperatornameBrace == Operatorname \o <<"{">>

MathopText == <<"\\", "m", "a", "t", "h", "o", "p", "{",
                "\\", "t", "e", "x", "t", "{">>

\* str.replace("\n", "  \n")
RECURSIVE ReplaceNewlines(_)
ReplaceNewlines(s) ==
    IF s = <<>> THEN <<>>
    ELSE (IF Head(s) = "\n" THEN <<" ", " ", "\n">> ELSE <<Head(s)>>)
         \o ReplaceNewlines(Tail(s))

\* The lengths b >= 1 the lazy (.+?) of span B may take from position b0:
\* characters "." matches, followed by "=".
SpanB(s, b0) == {b \in 1..DotRun(s, b0) : HasAt(s, b0 + b, <<"=">>)}

\* The lengths a >= 1 the lazy (.+?) of span A may take from position a0:
\* characters "." matches, followed by "}" and then by a match of the rest.
SpanA(s, a0) ==
    {a \in 1..DotRun(s, a0) :
        HasAt(s, a0 + a, <<"}">>) /\ SpanB(s, a0 + a + 1) # {}}

\* The pattern \\operatorname\{(.+?)\}(.+?)= tried at position p: a lazy
\* span takes the fewest characters with which the rest still matches.
MatchAt(s, p) ==
    LET a0 == p + Len(OperatornameBrace)
        a == Min(SpanA(s, a0))
        b0 == a0 + a + 1
        b == Min(SpanB(s, b0))
    IN  IF HasAt(s, p, OperatornameBrace) /\ SpanA(s, a0) # {}
        THEN [matched |-> TRUE, start |-> p, end |-> b0 + b,
              A |-> SubSeq(s, a0, a0 + a - 1),
              B |-> SubSeq(s, b0, b0 + b - 1)]
        ELSE [matched |-> FALSE, start |-> p, end |-> p,
              A |-> <<>>, B |-> <<>>]

\* The template \\mathop{\\text{\1}}\2= expanded for one match.
Replacement(m) == MathopText \o m.A \o <<"}", "}">> \o m.B \o <<"=">>

\* The matches re.sub finds from position p on: leftmost first, the next
\* search starting where the last match ended.
RECURSIVE FindIter(_, _)
FindIter(s, p) ==
    IF p > Len(s) THEN <<>>
    ELSE LET m == MatchAt(s, p)
         IN  IF m.matched THEN <<m>> \o FindIter(s, m.end + 1)
             ELSE FindIter(s, p + 1)

\* re.sub(pattern, replacement, s) from position p on.
RECURSIVE Sub(_, _)
Sub(s, p) ==
    IF p > Len(s) THEN <<>>
    ELSE LET m == MatchAt(s, p)
         IN  IF m.matched THEN Replacement(m) \o Sub(s, m.end + 1)
             ELSE <<s[p]>> \o Sub(s, p + 1)

\* WorkaroundApplies that does not read the flag.
WorkaroundIgnoresFlag(flag, text) == Contains(text, Operatorname)

\* Line 179: the workaround applies.
WorkaroundApplies(flag, text) == flag /\ Contains(text, Operatorname)

\* The most pieces a description text is made of.
MaxPieces == 6

TextPieces == {OperatornameBrace, <<"}">>, <<"=">>, <<"a">>, <<"\n">>}

Texts == {Join(ps) : ps \in UNION {[1..n -> TextPieces] : n \in 0..MaxPieces}}

InitSanitise ==
    /\ description \in Texts
    /\ github_workaround \in BOOLEAN
    /\ description_text = <<>>
    /\ subs = <<>>
    /\ pc = "sanitise"
    /\ IdleResolver
    /\ href = <<>>
    /\ match = NoSearch

\* Lines 172-206 with the workaround applied.
SanitiseWorkaround ==
    /\ pc = "sanitise"
    /\ LET text == ReplaceNewlines(description)
       IN  /\ WorkaroundApplies(github_workaround, text)
           /\ description_text' = Sub(text, 1)
           /\ subs' = FindIter(text, 1)
    /\ pc' = "sanitised"
    /\ UNCHANGED <<description, github_workaround, resolverVars, regexVars>>

\* Lines 172-179 and 206, the workaround skipped.
SanitisePlain ==
    /\ pc = "sanitise"
    /\ LET text == ReplaceNewlines(description)
       IN  /\ ~WorkaroundApplies(github_workaround, text)
           /\ description_text' = text
    /\ pc' = "sanitised"
    /\ UNCHANGED <<description, github_workaround, subs, resolverVars,
                   regexVars>>

NextSanitise == SanitiseWorkaround \/ SanitisePlain

SpecSanitise == InitSanitise /\ [][NextSanitise]_vars

(***************************************************************************)
(* Properties                                                              *)
(***************************************************************************)

Range(s) == {s[k] : k \in 1..Len(s)}

\* The links of the block, by their place in find_all's list.
LinkIds == 1..Len(links)

HrefOf(j) == links[j].node.href

KindOf(j) == IF HrefOf(j) = None THEN "nohref" ELSE Classify(HrefOf(j))

\* The sanitised file name of resource link j.
FileNameOf(j) == sanitise_file_name(RESOURCE_URL_REGEX(HrefOf(j)).group)

\* Link j is still the original element in the block.
Untouched(j) == content[links[j].at] = links[j].node

\* Link j has given its place to the text "[string](target)".
RewrittenTo(j, target) ==
    content[links[j].at] =
        TextNode(<<"[">> \o Format(TagString(links[j].node)) \o <<"]", "(">>
                 \o target \o <<")">>)

\* The call has raised at link i.
RaisedAt(j) == pc = "raised" /\ i = j

\* C1: a link whose href matches none of the three patterns is never passed
\* and never rewritten, the call never returns, and when the call raises at
\* that link the error is NotImplementedError with the href in its message.
C1_UnknownLinkIsFatal ==
    \A j \in LinkIds :
        KindOf(j) = "unknown" =>
            /\ i <= j
            /\ Untouched(j)
            /\ pc # "done"
            /\ result = NoResult
            /\ RaisedAt(j) =>
                /\ error.kind = "NotImplementedError"
                /\ Contains(error.message, HrefOf(j))

C1_Witness ==
    /\ RaisedAt(2)
    /\ KindOf(2) = "unknown"
    /\ KindOf(1) = "resource"
    /\ error.kind = "NotImplementedError"

\* Resource link k repeats the sanitised file name of an earlier resource
\* link.
Repeats(k) ==
    /\ KindOf(k) = "resource"
    /\ \E j \in 1..(k - 1) :
          KindOf(j) = "resource" /\ FileNameOf(j) = FileNameOf(k)

\* The first link that has the sanitised file name of link k.
FirstOf(k) ==
    Min({j \in 1..k : KindOf(j) = "resource"
                      /\ FileNameOf(j) = FileNameOf(k)})

\* C2: a resource link whose sanitised file name repeats that of an earlier
\* resource link is never passed and never rewritten; when the call raises
\* at it the error is KeyError, the manifest still maps the name to the
\* remote URL of the first link, no later link is rewritten and nothing is
\* returned.
C2_CollisionIsFatal ==
    \A k \in LinkIds :
        Repeats(k) =>
            /\ i <= k
            /\ Untouched(k)
            /\ pc # "done"
            /\ result = NoResult
            /\ \A l \in LinkIds : l > k => Untouched(l)
            /\ HasKey(remote_content, FileNameOf(k)) =>
                  remote_content[FileNameOf(k)] =
                      URL_BASE \o HrefOf(FirstOf(k))
            /\ RaisedAt(k) =>
                /\ error.kind = "KeyError"
                /\ HasKey(remote_content, FileNameOf(k))
                /\ Contains(error.message, FileNameOf(k))

\* A collision of two different captured file names, a link left behind it.
C2_Witness ==
    /\ RaisedAt(2)
    /\ error.kind = "KeyError"
    /\ Len(links) = 3
    /\ RESOURCE_URL_REGEX(HrefOf(1)).group # RESOURCE_URL_REGEX(HrefOf(2)).group

\* C3: a call that completes returns the manifest, not empty, exactly when
\* some link of the block is a resource reference, and None exactly when
\* none is.
C3_ReturnContract ==
    pc = "done" =>
        LET some == \E j \in LinkIds : KindOf(j) = "resource"
        IN  /\ result.kind \in {"dict", "None"}
            /\ result.kind = "dict" <=> some
            /\ result.kind = "None" <=> ~some
            /\ result.kind = "dict" =>
                  /\ DOMAIN result.value # {}
                  /\ result.value = remote_content

\* A manifest whose only key is the empty file name is still returned.
C3_Witness ==
    /\ pc = "done"
    /\ result.kind = "dict"
    /\ DOMAIN result.value = {<<>>}

\* The resource links the loop has passed.
PassedResources == {j \in LinkIds : j < i /\ KindOf(j) = "resource"}

\* C4: after every iteration the manifest has one entry for each resource
\* link passed and one key for each sanitised file name seen; the value of
\* an entry is the base URL followed by the href of its link; and the link
\* is rewritten to the target "./" followed by the sanitised file name.
C4_ManifestEntries ==
    pc # "call" =>
        /\ DOMAIN remote_content = {FileNameOf(j) : j \in PassedResources}
        /\ Cardinality(DOMAIN remote_content) = Cardinality(PassedResources)
        /\ \A j \in PassedResources :
              /\ remote_content[FileNameOf(j)] = URL_BASE \o HrefOf(j)
              /\ RewrittenTo(j, <<".", "/">> \o FileNameOf(j))

C4_Witness ==
    /\ pc = "loop"
    /\ Cardinality(PassedResources) = 2
    /\ \E j \in PassedResources :
          RESOURCE_URL_REGEX(HrefOf(j)).group # FileNameOf(j)

\* Everything after the last "/" of s.
AfterLastSlash(s) ==
    LET S == {k \in 1..Len(s) : s[k] = "/"}
    IN  IF S = {} THEN s ELSE SubSeq(s, Max(S) + 1, Len(s))

\* The original C5: the file name a resource href captures is everything
\* after the last "/" of the href and holds no "/".
C5_FileNameHasNoSeparator ==
    (pc = "searched" /\ match.resource.matched) =>
        /\ match.resource.group = AfterLastSlash(href)
        /\ "/" \notin Range(match.resource.group)

DirPrefixes ==
    {Resources \o <<"/">>, Images \o <<"/">>,
     ProjectSlash \o Resources \o <<"/">>, ProjectSlash \o Images \o <<"/">>}

\* The href is one line, does not end in "/" and has no "/" right after
\* the separator that follows the directory name.
PlainPath(h) ==
    /\ "\n" \notin Range(h)
    /\ h[Len(h)] # "/"
    /\ \A d \in DirPrefixes : HasAt(h, 1, d) => ~HasAt(h, Len(d) + 1, <<"/">>)

\* C5 as amended: the file name a resource href captures is not empty and
\* holds a "/" only as its first or its last character; for an href of one
\* line that does not end in "/" and has no "/" right after the directory
\* separator it is everything after the last "/" and holds no "/".
C5_FileNameAmended ==
    (pc = "searched" /\ match.resource.matched) =>
        LET name == match.resource.group
        IN  /\ name # <<>>
            /\ \A k \in 2..(Len(name) - 1) : name[k] # "/"
            /\ PlainPath(href) =>
                  /\ name = AfterLastSlash(href)
                  /\ "/" \notin Range(name)

\* A plain href with two nested path segments.
C5_Witness ==
    /\ pc = "searched"
    /\ match.resource.matched
    /\ PlainPath(href)
    /\ Cardinality({k \in 1..Len(href) : href[k] = "/"}) >= 3
    /\ HasAt(href, 1, ProjectSlash)

\* The href starts with "problem=" and a digit.
IsChallengeHref(h) ==
    /\ h # None
    /\ HasAt(h, 1, ProblemEq)
    /\ Len(h) > Len(ProblemEq)
    /\ h[Len(ProblemEq) + 1] \in Digits

\* The longest run of digits right after "problem=".
ChallengeDigits(h) ==
    LET p == Len(ProblemEq)
        N == {n \in 1..(Len(h) - p) : \A k \in (p + 1)..(p + n) : h[k] \in Digits}
    IN  SubSeq(h, p + 1, p + Max(N))

\* C6: a link passed by the loop whose href starts with "problem=" and a
\* digit is rewritten to the challenge base URL followed by the longest run
\* of digits after the prefix, as written; the manifest has no entry for
\* its href, and no more entries than links that are not challenge links.
C6_ChallengeTarget ==
    \A j \in LinkIds :
        (j < i /\ IsChallengeHref(HrefOf(j))) =>
            /\ RewrittenTo(j, CHALLENGE_URL_BASE \o ChallengeDigits(HrefOf(j)))
            /\ \A k \in DOMAIN remote_content :
                  remote_content[k] # URL_BASE \o HrefOf(j)
            /\ Cardinality(DOMAIN remote_content) <=
                  Cardinality({l \in LinkIds :
                                  l < i /\ ~IsChallengeHref(HrefOf(l))})

\* Leading zeros and a trailing "x1", a resource link before it.
C6_Witness ==
    /\ i = 3
    /\ HrefOf(2) = Href_ChallengeZeros
    /\ KindOf(1) = "resource"
    /\ RewrittenTo(2, CHALLENGE_URL_BASE \o <<"0", "0", "7">>)

\* The target the classification of link j chooses.
TargetOf(j) ==
    CASE KindOf(j) = "challenge" ->
            CHALLENGE_URL_BASE \o ChallengeDigits(HrefOf(j))
      [] KindOf(j) = "resource" -> <<".", "/">> \o FileNameOf(j)
      [] KindOf(j) = "about" -> URL_BASE \o HrefOf(j)
      [] OTHER -> <<>>

\* C7: when the call completes no <a> element is left in the block, and
\* every link has given its place to the text "[display text](target)",
\* the display text being the text of the link (empty for a link without
\* text).
C7_EveryLinkBecomesMarkdown ==
    pc = "done" =>
        /\ \A n \in 1..Len(content) : content[n].tag # "a"
        /\ \A j \in LinkIds :
              content[links[j].at] =
                  TextNode(<<"[">> \o TagText(links[j].node) \o <<"]", "(">>
                           \o TargetOf(j) \o <<")">>)

\* C10: when the call raises KeyError or NotImplementedError at link k, the
\* links before k are rewritten to their Markdown text, link k and the
\* links after it are the original elements, nothing is returned, and the
\* block differs from the block the call was given when k > 1.
C10_PartialMutation ==
    (pc = "raised" /\ error.kind \in {"KeyError", "NotImplementedError"}) =>
        LET before == [n \in 1..Len(content) |->
                          IF \E j \in LinkIds : links[j].at = n
                          THEN (CHOOSE j \in LinkIds : links[j].at = n)
                          ELSE 0]
            original == [n \in 1..Len(content) |->
                            IF before[n] = 0 THEN content[n]
                            ELSE links[before[n]].node]
        IN  /\ \A j \in LinkIds : j < i => RewrittenTo(j, TargetOf(j))
            /\ \A j \in LinkIds : j >= i => Untouched(j)
            /\ result = NoResult
            /\ i > 1 => content # original

\* Two links rewritten, one manifest entry lost with the error.
C10_Witness ==
    /\ RaisedAt(3)
    /\ error.kind = "NotImplementedError"
    /\ DOMAIN remote_content # {}
    /\ KindOf(1) = "about"

\* The text with "  \n" in place of every "\n".
HardBreaks(s) ==
    Join([k \in 1..Len(s) |->
            IF s[k] = "\n" THEN <<" ", " ", "\n">> ELSE <<s[k]>>])

\* C8: with the flag unset, or with the flag set and no \operatorname in
\* the text, the result is the text with two spaces put before every
\* newline and nothing else changed.
C8_LineBreaksOnly ==
    (pc = "sanitised"
     /\ (~github_workaround \/ ~Contains(description, Operatorname))) =>
        description_text = HardBreaks(description)

\* The flag unset, a text with a newline and a rewritable \operatorname.
C8_Witness ==
    /\ pc = "sanitised"
    /\ ~github_workaround
    /\ "\n" \in Range(description)
    /\ FindIter(description, 1) # <<>>

\* C9: span B of every rewrite holds no equals sign.
C9_SpanBHasNoEquals ==
    pc = "sanitised" =>
        \A k \in 1..Len(subs) : "=" \notin Range(subs[k].B)

====
